---- MODULE Spec2Model ----
(***************************************************************************)
(* Model of mycli/packages/prompt_utils.py: the destructive-statement      *)
(* confirmation gate.  Text is a sequence of one-character strings, so     *)
(* that lower(), strip(), split() and startswith() are computed character  *)
(* by character as Python computes them.                                   *)
(***************************************************************************)
EXTENDS Integers, Sequences, FiniteSets, TLC

VARIABLES
    queries,        \* the query blob handed to the gate (text)
    keywords,       \* [given |-> BOOLEAN, items |-> sequence of texts]; given = FALSE is None
    double_confirm, \* "None", "False" or "True"
    strict_mode,    \* BOOLEAN
    destructive,    \* what is_destructive(queries) reports
    isatty,         \* what sys.stdin.isatty() reports
    whereClause,    \* the normalized statements query_has_where_clause reports TRUE for
    pc,             \* position of the running call
    result,         \* "unset", "None", "False", "True": value returned to the caller
    io,             \* events on the interactive device, oldest first
    retries,        \* inputs click.prompt has refused so far (empty or not a boolean)
    aborted,        \* 0, or the prompt (1 or 2) the operator aborted
    deciderCalls,   \* number of calls of _needs_double_confirmation
    needs,          \* "unset", "False", "True": what _needs_double_confirmation returned
    first,          \* "unset", "False", "True": value of `first`
    second,         \* "unset", "False", "True": value of `second`
    raised,         \* TRUE when an exception left confirm_destructive_query
    value,          \* the input of ConfirmBoolParamType.convert (ConvertSpec)
    converted       \* "unset", "False", "True", "fail": outcome of convert

vars == <<queries, keywords, double_confirm, strict_mode, destructive, isatty,
          whereClause, pc, result, io, retries, aborted, deciderCalls, needs, first,
          second,
          raised, value, converted>>

-----------------------------------------------------------------------------
(* Bounds *)

\* longest query blob of DeciderSpec
MaxLen == 5
\* longest operator input of ConvertSpec
MaxInput == 3
\* most inputs click.prompt refuses during one call
MaxRetries == 2

-----------------------------------------------------------------------------
(* Text primitives of Python *)

Range(s) == {s[i] : i \in 1..Len(s)}

Texts(alphabet, n) == UNION {[1..k -> alphabet] : k \in 0..n}

\* str.isspace for one character: what strip() removes and split() splits at
IsSpace(c) == c \in {" ", "\t", "\n"}

LowerChar(c) ==
    CASE c = "D" -> "d"
      [] c = "X" -> "x"
      [] c = "Y" -> "y"
      [] c = "E" -> "e"
      [] c = "S" -> "s"
      [] c = "N" -> "n"
      [] c = "O" -> "o"
      [] OTHER -> c

\* str.lower()
Lower(s) == [i \in 1..Len(s) |-> LowerChar(s[i])]

RECURSIVE LStrip(_)
LStrip(s) == IF s # <<>> /\ IsSpace(Head(s)) THEN LStrip(Tail(s)) ELSE s

RECURSIVE RStrip(_)
RStrip(s) ==
    IF s # <<>> /\ IsSpace(s[Len(s)]) THEN RStrip(SubSeq(s, 1, Len(s) - 1)) ELSE s

\* str.strip()
Strip(s) == RStrip(LStrip(s))

\* str.startswith(p)
StartsWith(s, p) == Len(p) <= Len(s) /\ SubSeq(s, 1, Len(p)) = p

RECURSIVE TakeWord(_)
TakeWord(s) ==
    IF s = <<>> \/ IsSpace(Head(s)) THEN <<>> ELSE <<Head(s)>> \o TakeWord(Tail(s))

\* s.split()[0] for a text that holds a non-space character
FirstToken(s) == TakeWord(LStrip(s))

\* sqlparse.split: a statement ends with its terminator, which stays in it;
\* the text between statements is stripped
RECURSIVE SplitFrom(_, _)
SplitFrom(s, cur) ==
    IF s = <<>> THEN (IF Strip(cur) = <<>> THEN <<>> ELSE <<Strip(cur)>>)
    ELSE IF Head(s) = ";" THEN <<Strip(cur \o <<";">>)>> \o SplitFrom(Tail(s), <<>>)
    ELSE SplitFrom(Tail(s), cur \o <<Head(s)>>)

SqlSplit(s) == SplitFrom(s, <<>>)

RECURSIVE Comprehend(_)
\* [t.strip().lower() for t in seq if t and t.strip()]
Comprehend(seq) ==
    IF seq = <<>> THEN <<>>
    ELSE IF Head(seq) # <<>> /\ Strip(Head(seq)) # <<>>
         THEN <<Lower(Strip(Head(seq)))>> \o Comprehend(Tail(seq))
         ELSE Comprehend(Tail(seq))

-----------------------------------------------------------------------------
(* parseutils collaborators *)

IsDestructive(q) == destructive

QueryHasWhereClause(q) == q \in whereClause

-----------------------------------------------------------------------------
(* _needs_double_confirmation *)

\* lines 46 and 51: the two list comprehensions
Normalized(q) == Comprehend(SqlSplit(q))

NormKeywords(kws) == Comprehend(kws)

\* the prefix rule without its `q == kw` case
MutPrefixNoEquality(q, norm_keywords) ==
    \E i \in 1..Len(norm_keywords) : StartsWith(q, norm_keywords[i] \o <<" ">>)

\* lines 58-61: the prefix rule on one statement
PrefixMatched(q, norm_keywords) ==
    \E i \in 1..Len(norm_keywords) :
        StartsWith(q, norm_keywords[i] \o <<" ">>) \/ q = norm_keywords[i]

\* lines 57-65: the value of `matched` for one statement
Matched(q, norm_keywords) ==
    IF PrefixMatched(q, norm_keywords) THEN TRUE
    ELSE FirstToken(q) \in Range(norm_keywords)

\* the strict_mode test inverted
MutTriggersInverted(q, strict) ==
    IF strict THEN ~QueryHasWhereClause(q) ELSE TRUE

\* lines 66-73: whether a matched statement makes the function return True
Triggers(q, strict) ==
    IF strict THEN TRUE ELSE ~QueryHasWhereClause(q)

\* `return False` inside the loop: only the first statement is examined
MutScanFirstOnly(normalized, norm_keywords, strict, i) ==
    IF i > Len(normalized) THEN FALSE
    ELSE Matched(normalized[i], norm_keywords) /\ Triggers(normalized[i], strict)

\* a matched statement with a WHERE clause ends the scan
RECURSIVE MutScanWhereStops(_, _, _, _)
MutScanWhereStops(normalized, norm_keywords, strict, i) ==
    IF i > Len(normalized) THEN FALSE
    ELSE IF Matched(normalized[i], norm_keywords)
         THEN Triggers(normalized[i], strict)
         ELSE MutScanWhereStops(normalized, norm_keywords, strict, i + 1)

\* lines 55-74: the loop over the statements, from statement i on
RECURSIVE ScanFrom(_, _, _, _)
ScanFrom(normalized, norm_keywords, strict, i) ==
    IF i > Len(normalized) THEN FALSE
    ELSE IF Matched(normalized[i], norm_keywords) /\ Triggers(normalized[i], strict)
         THEN TRUE
         ELSE ScanFrom(normalized, norm_keywords, strict, i + 1)

NeedsDoubleConfirmation(q, kws, strict) ==
    LET normalized == Normalized(q)
        norm_keywords == NormKeywords(kws)
    IN  IF normalized = <<>> THEN FALSE
        ELSE IF norm_keywords = <<>> THEN FALSE
        ELSE ScanFrom(normalized, norm_keywords, strict, 1)

Bool(b) == IF b THEN "True" ELSE "False"

-----------------------------------------------------------------------------
(* ConfirmBoolParamType.convert *)

\* a value handed to convert: a bool, or a text
BoolValue(b) == [kind |-> "bool", b |-> b, s |-> <<>>]

StrValue(t) == [kind |-> "str", b |-> FALSE, s |-> t]

NoValue == StrValue(<<>>)

Yes == {<<"y", "e", "s">>, <<"y">>}

No == {<<"n", "o">>, <<"n">>}

\* any text that is not a yes is taken as a no
MutConvertDefaultsToNo(v) ==
    IF v.kind = "bool" THEN Bool(v.b)
    ELSE IF Lower(v.s) \in Yes THEN "True" ELSE "False"

\* lines 14-22; "fail" is the BadParameter that self.fail raises
Convert(v) ==
    IF v.kind = "bool" THEN Bool(v.b)
    ELSE LET lowered == Lower(v.s)
         IN  IF lowered \in Yes THEN "True"
             ELSE IF lowered \in No THEN "False"
             ELSE "fail"

-----------------------------------------------------------------------------
(* DeciderSpec: _needs_double_confirmation on every blob up to MaxLen *)

\* D stands for a keyword written in upper case, as SQL usually is
BlobAlphabet == {"D", " ", "\t", ";"}

KeywordLists ==
    { <<>>,
      << <<>> >>,
      << <<"d">> >>,
      << <<" ", "D", "\t">> >>,
      << <<"d", " ", "d">> >>,
      << <<" ">>, <<"d", "d">>, <<"D">> >> }

DeciderInit ==
    /\ queries \in Texts(BlobAlphabet, MaxLen)
    /\ keywords \in [given : {TRUE}, items : KeywordLists]
    /\ strict_mode \in BOOLEAN
    /\ whereClause \in SUBSET Range(Normalized(queries))
    /\ double_confirm = "True"
    /\ destructive = TRUE
    /\ isatty = TRUE
    /\ pc = "decide"
    /\ result = "unset"
    /\ io = <<>>
    /\ retries = 0
    /\ aborted = 0
    /\ deciderCalls = 0
    /\ needs = "unset"
    /\ first = "unset"
    /\ second = "unset"
    /\ raised = FALSE
    /\ value = NoValue
    /\ converted = "unset"

Decide ==
    /\ pc = "decide"
    /\ needs' = Bool(NeedsDoubleConfirmation(queries, keywords.items, strict_mode))
    /\ deciderCalls' = deciderCalls + 1
    /\ pc' = "decided"
    /\ UNCHANGED <<queries, keywords, double_confirm, strict_mode, destructive,
                   isatty, whereClause, result, io, retries, aborted, first, second,
                   raised, value, converted>>

DeciderNext == Decide

DeciderSpec == DeciderInit /\ [][DeciderNext]_vars

-----------------------------------------------------------------------------
(* ConvertSpec: ConfirmBoolParamType.convert on every input up to MaxInput *)

ConvertAlphabet == {"y", "Y", "e", "E", "s", "S", "n", "N", "o", "O", " "}

ConvertInit ==
    /\ value \in {BoolValue(b) : b \in BOOLEAN}
                 \cup {StrValue(t) : t \in Texts(ConvertAlphabet, MaxInput)}
    /\ converted = "unset"
    /\ pc = "convert"
    /\ queries = <<>>
    /\ keywords = [given |-> FALSE, items |-> <<>>]
    /\ double_confirm = "None"
    /\ strict_mode = TRUE
    /\ destructive = FALSE
    /\ isatty = FALSE
    /\ whereClause = {}
    /\ result = "unset"
    /\ io = <<>>
    /\ retries = 0
    /\ aborted = 0
    /\ deciderCalls = 0
    /\ needs = "unset"
    /\ first = "unset"
    /\ second = "unset"
    /\ raised = FALSE

ConvertCall ==
    /\ pc = "convert"
    /\ converted' = Convert(value)
    /\ pc' = "converted"
    /\ UNCHANGED <<queries, keywords, double_confirm, strict_mode, destructive,
                   isatty, whereClause, result, io, retries, aborted,
                   deciderCalls, needs, first, second, raised, value>>

ConvertNext == ConvertCall

ConvertSpec == ConvertInit /\ [][ConvertNext]_vars

-----------------------------------------------------------------------------
(* prompt and confirm_destructive_query *)

\* the blobs the gate is called with: DROP TABLE x; a SELECT then a DROP with a
\* tab; two statements that both match; no statement at all
FlowBlobs ==
    { <<"D", " ", "x">>,
      <<"s", ";", "D", "\t", "x">>,
      <<"d", " ", "d", " ", "x", ";", " ", "d", " ", "x">>,
      <<" ">> }

\* the lines the operator types
OperatorLines ==
    { <<"y">>, <<"Y", "E", "S">>, <<"n">>, <<"N", "o">>, <<>>, <<"x">>, <<" ", "y">> }

\* what the operator does at one blocking read: types a line, or aborts
Line(t) == [kind |-> "line", s |-> t]

Abort == [kind |-> "abort", s |-> <<>>]

OperatorInputs == {Line(t) : t \in OperatorLines} \cup {Abort}

\* click.prompt around one read: click.Abort on an interrupt or end of input;
\* an empty line is asked again; a line the type refuses is reported and
\* asked again; otherwise the converted value is returned
ClickPrompt(inp) ==
    IF inp.kind = "abort" THEN "Abort"
    ELSE IF inp.s = <<>> THEN "again"
    ELSE IF Convert(StrValue(inp.s)) = "fail" THEN "invalid"
    ELSE Convert(StrValue(inp.s))

\* prompt() without its except clause: click.Abort leaves the function
MutPromptPropagates(inp) ==
    LET r == ClickPrompt(inp)
    IN  IF r = "Abort" THEN [ret |-> "Abort", exc |-> TRUE]
        ELSE [ret |-> r, exc |-> FALSE]

\* lines 123-128: prompt() turns click.Abort into False
Prompt(inp) ==
    LET r == ClickPrompt(inp)
    IN  IF r = "Abort" THEN [ret |-> "False", exc |-> FALSE]
        ELSE [ret |-> r, exc |-> FALSE]

\* line 106: truthiness of double_confirm and of keywords
Truthy(dc) == dc = "True"

KeywordsTruthy(kws) == kws.given /\ Len(kws.items) > 0

\* the gate without its double_confirm test
MutSecondIgnoresDoubleConfirm(q, kws, dc, strict) ==
    /\ KeywordsTruthy(kws)
    /\ NeedsDoubleConfirmation(q, kws.items, strict)

\* lines 106-107: whether the second prompt is required
SecondRequired(q, kws, dc, strict) ==
    /\ Truthy(dc)
    /\ KeywordsTruthy(kws)
    /\ NeedsDoubleConfirmation(q, kws.items, strict)

\* what the device sees when click.prompt asks again
RetryEvents(r, text) ==
    <<"read">> \o (IF r = "invalid" THEN <<"error">> ELSE <<>>) \o <<text>>

FlowInputs == <<queries, keywords, double_confirm, strict_mode, destructive, isatty,
                whereClause, value, converted>>

\* the early return taken only when both tests fail (`and` for `or`)
MutCallNeedsBoth ==
    /\ pc = "call"
    /\ IF ~IsDestructive(queries) /\ ~isatty
       THEN /\ result' = "None"
            /\ pc' = "done"
            /\ io' = io
       ELSE /\ io' = io \o <<"prompt1">>
            /\ pc' = "read1"
            /\ result' = result
    /\ UNCHANGED <<FlowInputs, retries, aborted, deciderCalls, needs, first, second,
                   raised>>

\* lines 95-101: the early return, else the first prompt is written
Call ==
    /\ pc = "call"
    /\ IF ~IsDestructive(queries) \/ ~isatty
       THEN /\ result' = "None"
            /\ pc' = "done"
            /\ io' = io
       ELSE /\ io' = io \o <<"prompt1">>
            /\ pc' = "read1"
            /\ result' = result
    /\ UNCHANGED <<FlowInputs, retries, aborted, deciderCalls, needs, first, second,
                   raised>>

\* click.prompt's loop inside the first prompt() call: the line is refused
FirstRetry ==
    /\ pc = "read1"
    /\ retries < MaxRetries
    /\ \E inp \in OperatorInputs :
          /\ Prompt(inp).ret \in {"again", "invalid"}
          /\ io' = io \o RetryEvents(Prompt(inp).ret, "prompt1")
    /\ retries' = retries + 1
    /\ UNCHANGED <<FlowInputs, pc, result, aborted, deciderCalls, needs, first,
                   second, raised>>

\* the `if not first` test placed after the gate instead of before it
MutFirstOutcomeGateFirst(ans) ==
    LET consulted == Truthy(double_confirm) /\ KeywordsTruthy(keywords)
        required == SecondRequired(queries, keywords, double_confirm, strict_mode)
    IN  [result |-> IF required THEN result ELSE ans,
         pc |-> IF required THEN "read2" ELSE "done",
         events |-> IF required THEN <<"read", "prompt2">> ELSE <<"read">>,
         calls |-> IF consulted THEN 1 ELSE 0,
         needs |-> IF consulted
                   THEN Bool(NeedsDoubleConfirmation(queries, keywords.items,
                                                     strict_mode))
                   ELSE needs]

\* the second answer read from the device without a prompt being written
MutFirstOutcomeSilentSecond(ans) ==
    IF ans # "True"
    THEN [result |-> "False", pc |-> "done", events |-> <<"read">>,
          calls |-> 0, needs |-> needs]
    ELSE LET consulted == Truthy(double_confirm) /\ KeywordsTruthy(keywords)
             required == SecondRequired(queries, keywords, double_confirm, strict_mode)
         IN  [result |-> IF required THEN result ELSE "True",
              pc |-> IF required THEN "read2" ELSE "done",
              events |-> <<"read">>,
              calls |-> IF consulted THEN 1 ELSE 0,
              needs |-> IF consulted
                        THEN Bool(NeedsDoubleConfirmation(queries, keywords.items,
                                                          strict_mode))
                        ELSE needs]

\* lines 102-112 once prompt() has returned `first`: declined, or the gate is
\* evaluated and either the second prompt is written or True is returned
FirstOutcome(ans) ==
    IF ans # "True"
    THEN [result |-> "False", pc |-> "done", events |-> <<"read">>,
          calls |-> 0, needs |-> needs]
    ELSE LET consulted == Truthy(double_confirm) /\ KeywordsTruthy(keywords)
             required == SecondRequired(queries, keywords, double_confirm, strict_mode)
         IN  [result |-> IF required THEN result ELSE "True",
              pc |-> IF required THEN "read2" ELSE "done",
              events |-> IF required THEN <<"read", "prompt2">> ELSE <<"read">>,
              calls |-> IF consulted THEN 1 ELSE 0,
              needs |-> IF consulted
                        THEN Bool(NeedsDoubleConfirmation(queries, keywords.items,
                                                          strict_mode))
                        ELSE needs]

\* lines 101-108: the first prompt() call returns
FirstAnswer ==
    /\ pc = "read1"
    /\ \E inp \in OperatorInputs :
          LET out == Prompt(inp)
              nxt == FirstOutcome(out.ret)
          IN  /\ out.ret \notin {"again", "invalid"}
              /\ aborted' = IF inp.kind = "abort" THEN 1 ELSE aborted
              /\ IF out.exc
                 THEN /\ raised' = TRUE
                      /\ pc' = "done"
                      /\ io' = io \o <<"read">>
                      /\ UNCHANGED <<result, first, deciderCalls, needs>>
                 ELSE /\ first' = out.ret
                      /\ raised' = raised
                      /\ result' = nxt.result
                      /\ pc' = nxt.pc
                      /\ io' = io \o nxt.events
                      /\ deciderCalls' = deciderCalls + nxt.calls
                      /\ needs' = nxt.needs
    /\ UNCHANGED <<FlowInputs, retries, second>>

\* click.prompt's loop inside the second prompt() call: the line is refused
SecondRetry ==
    /\ pc = "read2"
    /\ retries < MaxRetries
    /\ \E inp \in OperatorInputs :
          /\ Prompt(inp).ret \in {"again", "invalid"}
          /\ io' = io \o RetryEvents(Prompt(inp).ret, "prompt2")
    /\ retries' = retries + 1
    /\ UNCHANGED <<FlowInputs, pc, result, aborted, deciderCalls, needs, first,
                   second, raised>>

\* lines 108-112: prompt() returns `second`, which decides the result
SecondAnswer ==
    /\ pc = "read2"
    /\ \E inp \in OperatorInputs :
          LET out == Prompt(inp)
          IN  /\ out.ret \notin {"again", "invalid"}
              /\ aborted' = IF inp.kind = "abort" THEN 2 ELSE aborted
              /\ io' = io \o <<"read">>
              /\ pc' = "done"
              /\ IF out.exc
                 THEN /\ raised' = TRUE
                      /\ UNCHANGED <<result, second>>
                 ELSE /\ second' = out.ret
                      /\ raised' = raised
                      /\ result' = IF out.ret # "True" THEN "False" ELSE "True"
    /\ UNCHANGED <<FlowInputs, retries, deciderCalls, needs, first>>

Init ==
    /\ queries \in FlowBlobs
    /\ keywords \in {[given |-> FALSE, items |-> <<>>]}
                    \cup [given : {TRUE}, items : KeywordLists]
    /\ double_confirm \in {"None", "False", "True"}
    /\ strict_mode \in BOOLEAN
    /\ destructive \in BOOLEAN
    /\ isatty \in BOOLEAN
    /\ whereClause \in SUBSET Range(Normalized(queries))
    /\ pc = "call"
    /\ result = "unset"
    /\ io = <<>>
    /\ retries = 0
    /\ aborted = 0
    /\ deciderCalls = 0
    /\ needs = "unset"
    /\ first = "unset"
    /\ second = "unset"
    /\ raised = FALSE
    /\ value = NoValue
    /\ converted = "unset"

Next == Call \/ FirstRetry \/ FirstAnswer \/ SecondRetry \/ SecondAnswer

Spec == Init /\ [][Next]_vars

-----------------------------------------------------------------------------
(* Properties of confirm_destructive_query (Spec) *)

Count(seq, e) == Cardinality({i \in 1..Len(seq) : seq[i] = e})

Reads == Count(io, "read")

PromptTexts == {"prompt1", "prompt2"}

SecondIssued == "prompt2" \in Range(io)

\* C1: when the blob is not destructive or stdin is no terminal, the call
\* returns None and the device sees no write and no read, whatever
\* double_confirm, keywords and strict_mode are.
NoPromptWhenNotApplicable ==
    (~destructive \/ ~isatty) =>
        /\ io = <<>>
        /\ ~raised
        /\ pc \in {"call", "done"}
        /\ pc = "done" => result = "None"

NotATerminalReturned ==
    /\ pc = "done"
    /\ destructive
    /\ ~isatty
    /\ result = "None"
    /\ double_confirm = "True"
    /\ KeywordsTruthy(keywords)

\* C2: once the first answer is not affirmative the call has returned False,
\* the second prompt was never written and _needs_double_confirmation was
\* never called, whatever double_confirm, keywords and strict_mode are.
DeclinedFirstReturnsFalse ==
    first = "False" =>
        /\ pc = "done"
        /\ result = "False"
        /\ ~SecondIssued
        /\ deciderCalls = 0
        /\ needs = "unset"
        /\ second = "unset"

DeclinedWhereSecondWasDue ==
    /\ first = "False"
    /\ aborted = 0
    /\ SecondRequired(queries, keywords, double_confirm, strict_mode)

\* C3: after an affirmative first answer the second prompt is written exactly
\* when double_confirm is truthy, keywords is non-empty and
\* _needs_double_confirmation returns true; the result is the second answer
\* when the second prompt was written and True otherwise, and never None.
GateDecidesResult ==
    first = "True" =>
        /\ SecondIssued <=>
              /\ double_confirm = "True"
              /\ keywords.given
              /\ keywords.items # <<>>
              /\ NeedsDoubleConfirmation(queries, keywords.items, strict_mode)
        /\ pc = "done" =>
              /\ result \in {"True", "False"}
              /\ result = IF SecondIssued THEN second ELSE "True"
        /\ pc # "done" => pc = "read2" /\ SecondIssued /\ result = "unset"

SecondDeclined ==
    /\ pc = "done"
    /\ first = "True"
    /\ second = "False"
    /\ aborted = 0
    /\ strict_mode
    /\ result = "False"

\* C4: an operator abort during the first or the second prompt is taken as a
\* False answer: the call returns False and no exception reaches the caller.
AbortIsDecline ==
    aborted # 0 =>
        /\ pc = "done"
        /\ result = "False"
        /\ ~raised
        /\ aborted = 1 => first = "False"
        /\ aborted = 2 => first = "True" /\ second = "False"

AbortedSecondPrompt == aborted = 2 /\ pc = "done" /\ result = "False"

\* C7 as stated: a call performs at most two blocking reads, each preceded by
\* the writing of one of the two prompt texts, whatever the operator types.
AtMostTwoReads ==
    /\ Reads <= 2
    /\ \A i \in 1..Len(io) : io[i] = "read" => i > 1 /\ io[i - 1] \in PromptTexts

PromptCalls == IF io = <<>> THEN 0 ELSE IF SecondIssued THEN 2 ELSE 1

\* C7 amended: a call makes zero, one or two prompt() calls; each makes one
\* blocking read and one more for every line click.prompt refuses (an empty
\* line, or one the boolean parser rejects); each read directly follows the
\* writing of a prompt text; without a refused line the reads are at most two.
ReadsFollowPrompts ==
    /\ \A i \in 1..Len(io) : io[i] = "read" => i > 1 /\ io[i - 1] \in PromptTexts
    /\ PromptCalls \in 0..2
    /\ Reads <= PromptCalls + retries
    /\ pc = "done" => Reads = PromptCalls + retries
    /\ retries = 0 => Reads <= 2

RefusedLineReadAgain ==
    /\ pc = "done"
    /\ retries > 0
    /\ "error" \in Range(io)
    /\ SecondIssued
    /\ Reads > 2

-----------------------------------------------------------------------------
(* Properties of _needs_double_confirmation (DeciderSpec) *)

\* one statement against one phrase: equal, or prefix followed by a space, or
\* first token
PhraseMatches(q, kw) ==
    \/ q = kw
    \/ StartsWith(q, kw \o <<" ">>)
    \/ FirstToken(q) = kw

SomePhraseMatches(stmt) ==
    \E j \in 1..Len(keywords.items) :
        /\ Strip(keywords.items[j]) # <<>>
        /\ PhraseMatches(Lower(Strip(stmt)), Lower(Strip(keywords.items[j])))

Statements == SqlSplit(queries)

\* C5: in strict mode the function returns true exactly when some non-empty
\* statement of the split blob matches some non-empty normalized phrase,
\* wherever the statement stands and whatever the WHERE classification is.
StrictAnyMatch ==
    (pc = "decided" /\ strict_mode) =>
        (needs = "True" <=>
            \E i \in 1..Len(Statements) :
                Strip(Statements[i]) # <<>> /\ SomePhraseMatches(Statements[i]))

StrictLaterStatementMatches ==
    /\ pc = "decided"
    /\ strict_mode
    /\ needs = "True"
    /\ Len(Normalized(queries)) >= 2
    /\ ~Matched(Normalized(queries)[1], NormKeywords(keywords.items))
    /\ whereClause # {}

\* C6: in relaxed mode the function returns true exactly when some statement
\* both matches a phrase and is reported to have no WHERE clause; a matching
\* statement with a WHERE clause neither triggers nor ends the scan.
RelaxedNeedsNoWhere ==
    (pc = "decided" /\ ~strict_mode) =>
        (needs = "True" <=>
            \E i \in 1..Len(Statements) :
                /\ Strip(Statements[i]) # <<>>
                /\ SomePhraseMatches(Statements[i])
                /\ Lower(Strip(Statements[i])) \notin whereClause)

RelaxedLaterStatementTriggers ==
    /\ pc = "decided"
    /\ ~strict_mode
    /\ needs = "True"
    /\ LET n == Normalized(queries)
           k == NormKeywords(keywords.items)
       IN  /\ Len(n) >= 2
           /\ Matched(n[1], k) /\ n[1] \in whereClause
           /\ Matched(n[2], k) /\ n[2] \notin whereClause

\* the loop of _needs_double_confirmation with the first-token rule removed
RECURSIVE ScanPrefixOnly(_, _, _, _)
ScanPrefixOnly(normalized, norm_keywords, strict, i) ==
    IF i > Len(normalized) THEN FALSE
    ELSE IF PrefixMatched(normalized[i], norm_keywords) /\ Triggers(normalized[i], strict)
         THEN TRUE
         ELSE ScanPrefixOnly(normalized, norm_keywords, strict, i + 1)

NeedsWithoutFallback ==
    LET normalized == Normalized(queries)
        norm_keywords == NormKeywords(keywords.items)
    IN  IF normalized = <<>> \/ norm_keywords = <<>> THEN FALSE
        ELSE ScanPrefixOnly(normalized, norm_keywords, strict_mode, 1)

\* the character after the first token of q, "" when the token ends q
AfterFirstToken(q) ==
    IF Len(FirstToken(q)) < Len(q) THEN q[Len(FirstToken(q)) + 1] ELSE ""

\* C9 as stated: whenever a statement's first token equals a phrase, the
\* prefix rule already matches the statement, so that the function returns
\* the same with the first-token rule removed.
FallbackRedundant ==
    pc = "decided" =>
        /\ \A i \in 1..Len(Normalized(queries)) :
              FirstToken(Normalized(queries)[i]) \in Range(NormKeywords(keywords.items))
                  => PrefixMatched(Normalized(queries)[i], NormKeywords(keywords.items))
        /\ needs = Bool(NeedsWithoutFallback)

\* C9 amended: whenever a statement's first token equals a phrase and the
\* token ends the statement or is followed by a space character, the prefix
\* rule already matches; the first-token rule decides only for a first token
\* followed by another whitespace character (a tab, a newline), and only then
\* can removing it change what the function returns.
FallbackRedundantBeforeSpace ==
    pc = "decided" =>
        LET n == Normalized(queries)
            k == NormKeywords(keywords.items)
        IN  /\ \A i \in 1..Len(n) :
                  (FirstToken(n[i]) \in Range(k) /\ AfterFirstToken(n[i]) \in {"", " "})
                      => PrefixMatched(n[i], k)
            /\ needs # Bool(NeedsWithoutFallback) =>
                  \E i \in 1..Len(n) :
                      /\ FirstToken(n[i]) \in Range(k)
                      /\ AfterFirstToken(n[i]) \in {"\t", "\n"}

FirstTokenBeforeSpace ==
    /\ pc = "decided"
    /\ needs = "True"
    /\ LET n == Normalized(queries)
           k == NormKeywords(keywords.items)
       IN  /\ Len(n) >= 1
           /\ FirstToken(n[1]) \in Range(k)
           /\ AfterFirstToken(n[1]) = " "
           /\ PrefixMatched(n[1], k)

\* C10: strict mode is never more permissive than relaxed mode: on the same
\* blob, keywords and WHERE classification, a true answer in relaxed mode is a
\* true answer in strict mode, and a second prompt required in relaxed mode
\* is required in strict mode.
StrictAtLeastRelaxed ==
    pc = "decided" =>
        /\ (~strict_mode /\ needs = "True")
              => NeedsDoubleConfirmation(queries, keywords.items, TRUE)
        /\ (strict_mode /\ needs = "False")
              => ~NeedsDoubleConfirmation(queries, keywords.items, FALSE)
        /\ \A dc \in {"None", "False", "True"} :
              SecondRequired(queries, keywords, dc, FALSE)
                  => SecondRequired(queries, keywords, dc, TRUE)

RelaxedTrueBesideWhere ==
    /\ pc = "decided"
    /\ ~strict_mode
    /\ needs = "True"
    /\ whereClause # {}
    /\ SecondRequired(queries, keywords, "True", FALSE)
    /\ SecondRequired(queries, keywords, "True", TRUE)

-----------------------------------------------------------------------------
(* Properties of ConfirmBoolParamType.convert (ConvertSpec) *)

YesSpellings ==
    {<<a>> : a \in {"y", "Y"}}
        \cup {<<a, b, c>> : a \in {"y", "Y"}, b \in {"e", "E"}, c \in {"s", "S"}}

NoSpellings ==
    {<<a>> : a \in {"n", "N"}}
        \cup {<<a, b>> : a \in {"n", "N"}, b \in {"o", "O"}}

\* C8: convert returns a bool unchanged; a text gives True exactly for the
\* spellings of y and yes in any case, False exactly for those of n and no,
\* and a validation failure for every other text.
ConvertContract ==
    pc = "converted" =>
        IF value.kind = "bool" THEN converted = Bool(value.b)
        ELSE /\ converted = "True" <=> value.s \in YesSpellings
             /\ converted = "False" <=> value.s \in NoSpellings
             /\ converted = "fail" <=> value.s \notin YesSpellings \cup NoSpellings

OtherTextFails ==
    /\ pc = "converted"
    /\ value = StrValue(<<" ", "y">>)
    /\ converted = "fail"

====
